---- MODULE Spec2Model ----
(***************************************************************************)
(* Model of mesh_auditor/src/main.rs: the voxel remesher.                  *)
(*                                                                         *)
(*   get_bounds            padded axis-aligned bounding box of the points  *)
(*   MeshDistanceField::z  binary density at a grid vertex                 *)
(*   marching_cubes        the cube march (an external crate; modelled     *)
(*                         from the specification's section 4.3)           *)
(*   save_triangles_as_stl the ASCII STL writer                            *)
(*                                                                         *)
(* All coordinates are f32 in the source.  An f32 is modelled as IEEE 754  *)
(* binary32 with round-to-nearest-even: a finite value is s, m, e with     *)
(* value (-1)^s * m * 2^e, 2^23 <= m < 2^24 for a normal number and        *)
(* e = -149 for a subnormal one.  Zero is kept unsigned: no operation of   *)
(* the program tells -0.0 from +0.0.                                       *)
(***************************************************************************)
EXTENDS Integers, Sequences, FiniteSets

(***************************************************************************)
(* f32                                                                     *)
(***************************************************************************)
MantBits == 24
EMin == -149
EMax == 104

Pow2(n) == 2 ^ n

RECURSIVE BitLen(_)
BitLen(n) == IF n = 0 THEN 0 ELSE 1 + BitLen(n \div 2)

Fin(s, m, e) == [k |-> "fin", s |-> s, m |-> m, e |-> e]
Zero == Fin(0, 0, EMin)
Inf(s) == [k |-> "inf", s |-> s, m |-> 0, e |-> 0]
NaN == [k |-> "nan", s |-> 0, m |-> 0, e |-> 0]

IsNaN(a) == a.k = "nan"
IsInf(a) == a.k = "inf"
IsZero(a) == a.k = "fin" /\ a.m = 0

\* The f32 nearest to m * 2^e of sign s; m < 2^24 already fits.
Pack(s, m, e) ==
    IF m = 0 THEN Zero
    ELSE IF e > EMax THEN Inf(s)
    ELSE Fin(s, m, e)

\* Round (M + sticky) * 2^E, 0 <= M < 2^31, to nearest, ties to even; sticky
\* says that nonzero bits lie below M's last bit.
RECURSIVE Round(_, _, _, _)
Round(s, M, E, sticky) ==
    LET e1 == IF E + BitLen(M) - MantBits > EMin
              THEN E + BitLen(M) - MantBits ELSE EMin
        sh == e1 - E
    IN  IF M = 0 THEN Zero
        ELSE IF sh <= 0 THEN Pack(s, M * Pow2(-sh), e1)
        ELSE IF sh > 30 THEN Round(s, M \div 4, E + 2, sticky \/ M % 4 # 0)
        ELSE LET q == M \div Pow2(sh)
                 r == M % Pow2(sh)
                 half == Pow2(sh - 1)
                 up == r > half \/ (r = half /\ (sticky \/ q % 2 = 1))
                 q1 == IF up THEN q + 1 ELSE q
             IN  IF q1 = Pow2(MantBits) THEN Pack(s, Pow2(MantBits - 1), e1 + 1)
                 ELSE Pack(s, q1, e1)

\* usize as f32, exact below 2^24.
FromUsize(n) == Round(0, n, 0, FALSE)

\* The magnitude m * 2^e shifted right by d bits into guard, round and
\* sticky position: the bits shifted out are or-ed into the last bit.
Jam(m8, d) ==
    IF d > 27 THEN (IF m8 = 0 THEN 0 ELSE 1)
    ELSE LET q == m8 \div Pow2(d)
         IN  IF m8 % Pow2(d) # 0 /\ q % 2 = 0 THEN q + 1 ELSE q

Signed(a, v) == IF a.s = 1 THEN -v ELSE v

f32_add(a, b) ==
    IF IsNaN(a) \/ IsNaN(b) THEN NaN
    ELSE IF IsInf(a) THEN (IF IsInf(b) /\ a.s # b.s THEN NaN ELSE a)
    ELSE IF IsInf(b) THEN b
    ELSE IF a.m = 0 THEN b
    ELSE IF b.m = 0 THEN a
    ELSE LET hi == IF a.e >= b.e THEN a ELSE b
             lo == IF a.e >= b.e THEN b ELSE a
             A == hi.m * 8
             B == Jam(lo.m * 8, hi.e - lo.e)
             S == Signed(hi, A) + Signed(lo, B)
         IN  IF S < 0 THEN Round(1, -S, hi.e - 3, FALSE)
             ELSE Round(0, S, hi.e - 3, FALSE)

f32_neg(a) == IF IsNaN(a) \/ IsZero(a) THEN a ELSE [a EXCEPT !.s = 1 - a.s]

f32_sub(a, b) == f32_add(a, f32_neg(b))

f32_mul(a, b) ==
    LET s == IF a.s = b.s THEN 0 ELSE 1 IN
    IF IsNaN(a) \/ IsNaN(b) THEN NaN
    ELSE IF IsInf(a) \/ IsInf(b)
         THEN (IF IsZero(a) \/ IsZero(b) THEN NaN ELSE Inf(s))
    ELSE IF a.m = 0 \/ b.m = 0 THEN Zero
    ELSE LET a1 == a.m \div 4096
             a0 == a.m % 4096
             b1 == b.m \div 4096
             b0 == b.m % 4096
             cross == a1 * b0 + a0 * b1
             low == a0 * b0 + (cross % 4096) * 4096
             H == a1 * b1 + cross \div 4096 + low \div 16777216
             L == low % 16777216
             \* the product is H * 2^24 + L
             k == IF 30 - BitLen(H) > 24 THEN 24 ELSE 30 - BitLen(H)
         IN  Round(s, H * Pow2(k) + L \div Pow2(24 - k), a.e + b.e + 24 - k,
                   L % Pow2(24 - k) # 0)

\* x / (n as f32) for a usize n < 64: n is exact as f32 and the quotient is
\* correctly rounded.
f32_div_usize(a, n) ==
    IF IsNaN(a) THEN NaN
    ELSE IF IsInf(a) THEN a
    ELSE IF n = 0 THEN (IF a.m = 0 THEN NaN ELSE Inf(a.s))
    ELSE Round(a.s, (a.m * 128) \div n, a.e - 7, (a.m * 128) % n # 0)

\* x.powi(2): one multiplication.
powi2(a) == f32_mul(a, a)

\* The order of two f32 that are not NaN, by magnitude key.
Key(a) == IF IsInf(a) THEN <<EMax + 1, 0>> ELSE <<a.e, a.m>>
KeyLt(x, y) == x[1] < y[1] \/ (x[1] = y[1] /\ x[2] < y[2])

f32_lt(a, b) ==
    IF IsNaN(a) \/ IsNaN(b) THEN FALSE
    ELSE IF IsZero(a) /\ IsZero(b) THEN FALSE
    ELSE IF a.s # b.s THEN a.s = 1
    ELSE IF a.s = 0 THEN KeyLt(Key(a), Key(b))
    ELSE KeyLt(Key(b), Key(a))

f32_gt(a, b) == f32_lt(b, a)
f32_le(a, b) == ~IsNaN(a) /\ ~IsNaN(b) /\ ~f32_lt(b, a)

F32_MAX == Fin(0, 16777215, EMax)
F32_MIN == Fin(1, 16777215, EMax)


PADDING == Fin(0, 13421773, -26)      \* 0.2f32
THREE == Fin(0, 12582912, -22)        \* 3.0f32
ONE == Fin(0, 8388608, -23)           \* 1.0f32
FOUR == Fin(0, 8388608, -21)          \* 4.0f32
BIG == Fin(0, 8388608, 1)             \* 16777216.0f32 = 2^24

(***************************************************************************)
(* Bounds of the model                                                     *)
(***************************************************************************)
MaxPts == 2        \* points in a buffer of the pipeline
MaxRes == 3        \* grid resolution (main fixes 50: 51^3 grid vertices)

VARIABLES
    pc,            \* position in main, or in the function under check
    positions,     \* mesh.positions: the flat f32 buffer of the loaded model
    resolution,    \* the field's resolution
    min_bound,     \* get_bounds(..).0
    max_bound,     \* get_bounds(..).1
    density,       \* the field of positions, sampled at every grid vertex
    new_mesh,      \* the flat triangle buffer of the cube march
    other,         \* a second point buffer, for the field's dependence on its input
    other_density, \* the field of the second buffer, same bounds and resolution
    reads,         \* the indices of positions the strided scan has read
    cube,          \* the densities at the eight corners of one cell
    iso_lo,        \* two iso thresholds, in halves
    iso_hi,
    count_lo,      \* the triangles of the cell under each of them
    count_hi,
    triangles,     \* the buffer handed to save_triangles_as_stl
    file           \* the lines written to the file

mainVars == <<positions, resolution, min_bound, max_bound, density, new_mesh>>
strideVars == <<other, other_density, reads>>
isoVars == <<cube, iso_lo, iso_hi, count_lo, count_hi>>
stlVars == <<triangles, file>>
vars == <<pc, mainVars, strideVars, isoVars, stlVars>>

(***************************************************************************)
(* Inputs                                                                  *)
(***************************************************************************)
PointSet == {<<Zero, Zero, Zero>>, <<Zero, Zero, ONE>>, <<BIG, Zero, Zero>>}

RECURSIVE Flatten(_)
Flatten(pts) == IF pts = <<>> THEN <<>> ELSE Head(pts) \o Flatten(Tail(pts))

PointSeqs(n) == UNION {[1..k -> PointSet] : k \in 0..n}

\* 0-based read of the flat buffer, as positions[i] in the source.
At(buf, i) == buf[i + 1]

(***************************************************************************)
(* get_bounds                                                              *)
(***************************************************************************)
Lower(m, v) == IF f32_lt(v, m) THEN v ELSE m
Upper(m, v) == IF f32_gt(v, m) THEN v ELSE m

\* The loop over positions.chunks(3); a trailing chunk of fewer than three
\* values does not match [x, y, z] and is skipped.
RECURSIVE Extremes(_, _, _)
Extremes(buf, i, acc) ==
    IF i >= Len(buf) THEN acc
    ELSE IF i + 3 > Len(buf) THEN acc
    ELSE Extremes(buf, i + 3,
            [min |-> <<Lower(acc.min[1], At(buf, i)),
                       Lower(acc.min[2], At(buf, i + 1)),
                       Lower(acc.min[3], At(buf, i + 2))>>,
             max |-> <<Upper(acc.max[1], At(buf, i)),
                       Upper(acc.max[2], At(buf, i + 1)),
                       Upper(acc.max[3], At(buf, i + 2))>>])

RawBounds(buf) ==
    Extremes(buf, 0, [min |-> <<F32_MAX, F32_MAX, F32_MAX>>,
                      max |-> <<F32_MIN, F32_MIN, F32_MIN>>])

Padded(raw) ==
    [min |-> [a \in 1..3 |-> f32_sub(raw.min[a], PADDING)],
     max |-> [a \in 1..3 |-> f32_add(raw.max[a], PADDING)]]

get_bounds(buf) == Padded(RawBounds(buf))

(***************************************************************************)
(* MeshDistanceField                                                       *)
(***************************************************************************)
Field(buf, lo, hi, res) ==
    [positions |-> buf, min |-> lo, max |-> hi, resolution |-> res]

dimensions(f) == <<f.resolution, f.resolution, f.resolution>>

step(f, a) == f32_div_usize(f32_sub(f.max[a], f.min[a]), f.resolution)

world(f, a, g) == f32_add(f.min[a], f32_mul(FromUsize(g), step(f, a)))

\* Mutants of the scan's range: (0..=len).step_by(30), a stride of 10 scalars
\* instead of 10 points, and no stride at all.
ScanStartsInclusive(len) == [j \in 1..(len \div 30 + 1) |-> (j - 1) * 30]
ScanStartsByTen(len) == [j \in 1..((len + 9) \div 10) |-> (j - 1) * 10]
ScanStartsEveryPoint(len) == [j \in 1..((len + 2) \div 3) |-> (j - 1) * 3]

\* (0..len).step_by(30)
ScanStarts(len) == [j \in 1..((len + 29) \div 30) |-> (j - 1) * 30]

\* The indices the scan reads.
ScanReads(len) ==
    UNION {{ScanStarts(len)[j], ScanStarts(len)[j] + 1, ScanStarts(len)[j] + 2} :
           j \in DOMAIN ScanStarts(len)}

\* A read past the end of the slice panics.
ScanPanics(len) == \E r \in ScanReads(len) : r >= len

dist_sq(buf, i, w) ==
    f32_add(f32_add(powi2(f32_sub(At(buf, i), w[1])),
                    powi2(f32_sub(At(buf, i + 1), w[2]))),
            powi2(f32_sub(At(buf, i + 2), w[3])))

RECURSIVE Scan(_, _, _, _, _)
Scan(buf, starts, j, w, min_dist_sq) ==
    IF j > Len(starts) THEN min_dist_sq
    ELSE LET d == dist_sq(buf, starts[j], w)
         IN  Scan(buf, starts, j + 1, w,
                  IF f32_lt(d, min_dist_sq) THEN d ELSE min_dist_sq)

threshold(f) == powi2(f32_mul(step(f, 1), THREE))

\* fn z: 1 for the density 1.0, 0 for 0.0
z(f, x, y, zz) ==
    IF f32_lt(Scan(f.positions, ScanStarts(Len(f.positions)), 1,
                   <<world(f, 1, x), world(f, 2, y), world(f, 3, zz)>>, F32_MAX),
              threshold(f))
    THEN 1 ELSE 0

(***************************************************************************)
(* marching_cubes: the crate is no part of the sources; the march is the   *)
(* one of the specification, with the standard corner and edge numbering   *)
(* and the standard triangulation table.                                   *)
(***************************************************************************)
IsoHalves == 1     \* the iso threshold 0.5, in halves

CornerOffset ==
    <<<<0, 0, 0>>, <<1, 0, 0>>, <<1, 1, 0>>, <<0, 1, 0>>,
      <<0, 0, 1>>, <<1, 0, 1>>, <<1, 1, 1>>, <<0, 1, 1>>>>

EdgeCorners ==
    <<<<0, 1>>, <<1, 2>>, <<2, 3>>, <<3, 0>>, <<4, 5>>, <<5, 6>>,
      <<6, 7>>, <<7, 4>>, <<0, 4>>, <<1, 5>>, <<2, 6>>, <<3, 7>>>>

TriTable == <<
  <<>>,
  <<0, 8, 3>>,
  <<0, 1, 9>>,
  <<1, 8, 3, 9, 8, 1>>,
  <<1, 2, 10>>,
  <<0, 8, 3, 1, 2, 10>>,
  <<9, 2, 10, 0, 2, 9>>,
  <<2, 8, 3, 2, 10, 8, 10, 9, 8>>,
  <<3, 11, 2>>,
  <<0, 11, 2, 8, 11, 0>>,
  <<1, 9, 0, 2, 3, 11>>,
  <<1, 11, 2, 1, 9, 11, 9, 8, 11>>,
  <<3, 10, 1, 11, 10, 3>>,
  <<0, 10, 1, 0, 8, 10, 8, 11, 10>>,
  <<3, 9, 0, 3, 11, 9, 11, 10, 9>>,
  <<9, 8, 10, 10, 8, 11>>,
  <<4, 7, 8>>,
  <<4, 3, 0, 7, 3, 4>>,
  <<0, 1, 9, 8, 4, 7>>,
  <<4, 1, 9, 4, 7, 1, 7, 3, 1>>,
  <<1, 2, 10, 8, 4, 7>>,
  <<3, 4, 7, 3, 0, 4, 1, 2, 10>>,
  <<9, 2, 10, 9, 0, 2, 8, 4, 7>>,
  <<2, 10, 9, 2, 9, 7, 2, 7, 3, 7, 9, 4>>,
  <<8, 4, 7, 3, 11, 2>>,
  <<11, 4, 7, 11, 2, 4, 2, 0, 4>>,
  <<9, 0, 1, 8, 4, 7, 2, 3, 11>>,
  <<4, 7, 11, 9, 4, 11, 9, 11, 2, 9, 2, 1>>,
  <<3, 10, 1, 3, 11, 10, 7, 8, 4>>,
  <<1, 11, 10, 1, 4, 11, 1, 0, 4, 7, 11, 4>>,
  <<4, 7, 8, 9, 0, 11, 9, 11, 10, 11, 0, 3>>,
  <<4, 7, 11, 4, 11, 9, 9, 11, 10>>,
  <<9, 5, 4>>,
  <<9, 5, 4, 0, 8, 3>>,
  <<0, 5, 4, 1, 5, 0>>,
  <<8, 5, 4, 8, 3, 5, 3, 1, 5>>,
  <<1, 2, 10, 9, 5, 4>>,
  <<3, 0, 8, 1, 2, 10, 4, 9, 5>>,
  <<5, 2, 10, 5, 4, 2, 4, 0, 2>>,
  <<2, 10, 5, 3, 2, 5, 3, 5, 4, 3, 4, 8>>,
  <<9, 5, 4, 2, 3, 11>>,
  <<0, 11, 2, 0, 8, 11, 4, 9, 5>>,
  <<0, 5, 4, 0, 1, 5, 2, 3, 11>>,
  <<2, 1, 5, 2, 5, 8, 2, 8, 11, 4, 8, 5>>,
  <<10, 3, 11, 10, 1, 3, 9, 5, 4>>,
  <<4, 9, 5, 0, 8, 1, 8, 10, 1, 8, 11, 10>>,
  <<5, 4, 0, 5, 0, 11, 5, 11, 10, 11, 0, 3>>,
  <<5, 4, 8, 5, 8, 10, 10, 8, 11>>,
  <<9, 7, 8, 5, 7, 9>>,
  <<9, 3, 0, 9, 5, 3, 5, 7, 3>>,
  <<0, 7, 8, 0, 1, 7, 1, 5, 7>>,
  <<1, 5, 3, 3, 5, 7>>,
  <<9, 7, 8, 9, 5, 7, 10, 1, 2>>,
  <<10, 1, 2, 9, 5, 0, 5, 3, 0, 5, 7, 3>>,
  <<8, 0, 2, 8, 2, 5, 8, 5, 7, 10, 5, 2>>,
  <<2, 10, 5, 2, 5, 3, 3, 5, 7>>,
  <<7, 9, 5, 7, 8, 9, 3, 11, 2>>,
  <<9, 5, 7, 9, 7, 2, 9, 2, 0, 2, 7, 11>>,
  <<2, 3, 11, 0, 1, 8, 1, 7, 8, 1, 5, 7>>,
  <<11, 2, 1, 11, 1, 7, 7, 1, 5>>,
  <<9, 5, 8, 8, 5, 7, 10, 1, 3, 10, 3, 11>>,
  <<5, 7, 0, 5, 0, 9, 7, 11, 0, 1, 0, 10, 11, 10, 0>>,
  <<11, 10, 0, 11, 0, 3, 10, 5, 0, 8, 0, 7, 5, 7, 0>>,
  <<11, 10, 5, 7, 11, 5>>,
  <<10, 6, 5>>,
  <<0, 8, 3, 5, 10, 6>>,
  <<9, 0, 1, 5, 10, 6>>,
  <<1, 8, 3, 1, 9, 8, 5, 10, 6>>,
  <<1, 6, 5, 2, 6, 1>>,
  <<1, 6, 5, 1, 2, 6, 3, 0, 8>>,
  <<9, 6, 5, 9, 0, 6, 0, 2, 6>>,
  <<5, 9, 8, 5, 8, 2, 5, 2, 6, 3, 2, 8>>,
  <<2, 3, 11, 10, 6, 5>>,
  <<11, 0, 8, 11, 2, 0, 10, 6, 5>>,
  <<0, 1, 9, 2, 3, 11, 5, 10, 6>>,
  <<5, 10, 6, 1, 9, 2, 9, 11, 2, 9, 8, 11>>,
  <<6, 3, 11, 6, 5, 3, 5, 1, 3>>,
  <<0, 8, 11, 0, 11, 5, 0, 5, 1, 5, 11, 6>>,
  <<3, 11, 6, 0, 3, 6, 0, 6, 5, 0, 5, 9>>,
  <<6, 5, 9, 6, 9, 11, 11, 9, 8>>,
  <<5, 10, 6, 4, 7, 8>>,
  <<4, 3, 0, 4, 7, 3, 6, 5, 10>>,
  <<1, 9, 0, 5, 10, 6, 8, 4, 7>>,
  <<10, 6, 5, 1, 9, 7, 1, 7, 3, 7, 9, 4>>,
  <<6, 1, 2, 6, 5, 1, 4, 7, 8>>,
  <<1, 2, 5, 5, 2, 6, 3, 0, 4, 3, 4, 7>>,
  <<8, 4, 7, 9, 0, 5, 0, 6, 5, 0, 2, 6>>,
  <<7, 3, 9, 7, 9, 4, 3, 2, 9, 5, 9, 6, 2, 6, 9>>,
  <<3, 11, 2, 7, 8, 4, 10, 6, 5>>,
  <<5, 10, 6, 4, 7, 2, 4, 2, 0, 2, 7, 11>>,
  <<0, 1, 9, 4, 7, 8, 2, 3, 11, 5, 10, 6>>,
  <<9, 2, 1, 9, 11, 2, 9, 4, 11, 7, 11, 4, 5, 10, 6>>,
  <<8, 4, 7, 3, 11, 5, 3, 5, 1, 5, 11, 6>>,
  <<5, 1, 11, 5, 11, 6, 1, 0, 11, 7, 11, 4, 0, 4, 11>>,
  <<0, 5, 9, 0, 6, 5, 0, 3, 6, 11, 6, 3, 8, 4, 7>>,
  <<6, 5, 9, 6, 9, 11, 4, 7, 9, 7, 11, 9>>,
  <<10, 4, 9, 6, 4, 10>>,
  <<4, 10, 6, 4, 9, 10, 0, 8, 3>>,
  <<10, 0, 1, 10, 6, 0, 6, 4, 0>>,
  <<8, 3, 1, 8, 1, 6, 8, 6, 4, 6, 1, 10>>,
  <<1, 4, 9, 1, 2, 4, 2, 6, 4>>,
  <<3, 0, 8, 1, 2, 9, 2, 4, 9, 2, 6, 4>>,
  <<0, 2, 4, 4, 2, 6>>,
  <<8, 3, 2, 8, 2, 4, 4, 2, 6>>,
  <<10, 4, 9, 10, 6, 4, 11, 2, 3>>,
  <<0, 8, 2, 2, 8, 11, 4, 9, 10, 4, 10, 6>>,
  <<3, 11, 2, 0, 1, 6, 0, 6, 4, 6, 1, 10>>,
  <<6, 4, 1, 6, 1, 10, 4, 8, 1, 2, 1, 11, 8, 11, 1>>,
  <<9, 6, 4, 9, 3, 6, 9, 1, 3, 11, 6, 3>>,
  <<8, 11, 1, 8, 1, 0, 11, 6, 1, 9, 1, 4, 6, 4, 1>>,
  <<3, 11, 6, 3, 6, 0, 0, 6, 4>>,
  <<6, 4, 8, 11, 6, 8>>,
  <<7, 10, 6, 7, 8, 10, 8, 9, 10>>,
  <<0, 7, 3, 0, 10, 7, 0, 9, 10, 6, 7, 10>>,
  <<10, 6, 7, 1, 10, 7, 1, 7, 8, 1, 8, 0>>,
  <<10, 6, 7, 10, 7, 1, 1, 7, 3>>,
  <<1, 2, 6, 1, 6, 8, 1, 8, 9, 8, 6, 7>>,
  <<2, 6, 9, 2, 9, 1, 6, 7, 9, 0, 9, 3, 7, 3, 9>>,
  <<7, 8, 0, 7, 0, 6, 6, 0, 2>>,
  <<7, 3, 2, 6, 7, 2>>,
  <<2, 3, 11, 10, 6, 8, 10, 8, 9, 8, 6, 7>>,
  <<2, 0, 7, 2, 7, 11, 0, 9, 7, 6, 7, 10, 9, 10, 7>>,
  <<1, 8, 0, 1, 7, 8, 1, 10, 7, 6, 7, 10, 2, 3, 11>>,
  <<11, 2, 1, 11, 1, 7, 10, 6, 1, 6, 7, 1>>,
  <<8, 9, 6, 8, 6, 7, 9, 1, 6, 11, 6, 3, 1, 3, 6>>,
  <<0, 9, 1, 11, 6, 7>>,
  <<7, 8, 0, 7, 0, 6, 3, 11, 0, 11, 6, 0>>,
  <<7, 11, 6>>,
  <<7, 6, 11>>,
  <<3, 0, 8, 11, 7, 6>>,
  <<0, 1, 9, 11, 7, 6>>,
  <<8, 1, 9, 8, 3, 1, 11, 7, 6>>,
  <<10, 1, 2, 6, 11, 7>>,
  <<1, 2, 10, 3, 0, 8, 6, 11, 7>>,
  <<2, 9, 0, 2, 10, 9, 6, 11, 7>>,
  <<6, 11, 7, 2, 10, 3, 10, 8, 3, 10, 9, 8>>,
  <<7, 2, 3, 6, 2, 7>>,
  <<7, 0, 8, 7, 6, 0, 6, 2, 0>>,
  <<2, 7, 6, 2, 3, 7, 0, 1, 9>>,
  <<1, 6, 2, 1, 8, 6, 1, 9, 8, 8, 7, 6>>,
  <<10, 7, 6, 10, 1, 7, 1, 3, 7>>,
  <<10, 7, 6, 1, 7, 10, 1, 8, 7, 1, 0, 8>>,
  <<0, 3, 7, 0, 7, 10, 0, 10, 9, 6, 10, 7>>,
  <<7, 6, 10, 7, 10, 8, 8, 10, 9>>,
  <<6, 8, 4, 11, 8, 6>>,
  <<3, 6, 11, 3, 0, 6, 0, 4, 6>>,
  <<8, 6, 11, 8, 4, 6, 9, 0, 1>>,
  <<9, 4, 6, 9, 6, 3, 9, 3, 1, 11, 3, 6>>,
  <<6, 8, 4, 6, 11, 8, 2, 10, 1>>,
  <<1, 2, 10, 3, 0, 11, 0, 6, 11, 0, 4, 6>>,
  <<4, 11, 8, 4, 6, 11, 0, 2, 9, 2, 10, 9>>,
  <<10, 9, 3, 10, 3, 2, 9, 4, 3, 11, 3, 6, 4, 6, 3>>,
  <<8, 2, 3, 8, 4, 2, 4, 6, 2>>,
  <<0, 4, 2, 4, 6, 2>>,
  <<1, 9, 0, 2, 3, 4, 2, 4, 6, 4, 3, 8>>,
  <<1, 9, 4, 1, 4, 2, 2, 4, 6>>,
  <<8, 1, 3, 8, 6, 1, 8, 4, 6, 6, 10, 1>>,
  <<10, 1, 0, 10, 0, 6, 6, 0, 4>>,
  <<4, 6, 3, 4, 3, 8, 6, 10, 3, 0, 3, 9, 10, 9, 3>>,
  <<10, 9, 4, 6, 10, 4>>,
  <<4, 9, 5, 7, 6, 11>>,
  <<0, 8, 3, 4, 9, 5, 11, 7, 6>>,
  <<5, 0, 1, 5, 4, 0, 7, 6, 11>>,
  <<11, 7, 6, 8, 3, 4, 3, 5, 4, 3, 1, 5>>,
  <<9, 5, 4, 10, 1, 2, 7, 6, 11>>,
  <<6, 11, 7, 1, 2, 10, 0, 8, 3, 4, 9, 5>>,
  <<7, 6, 11, 5, 4, 10, 4, 2, 10, 4, 0, 2>>,
  <<3, 4, 8, 3, 5, 4, 3, 2, 5, 10, 5, 2, 11, 7, 6>>,
  <<7, 2, 3, 7, 6, 2, 5, 4, 9>>,
  <<9, 5, 4, 0, 8, 6, 0, 6, 2, 6, 8, 7>>,
  <<3, 6, 2, 3, 7, 6, 1, 5, 0, 5, 4, 0>>,
  <<6, 2, 8, 6, 8, 7, 2, 1, 8, 4, 8, 5, 1, 5, 8>>,
  <<9, 5, 4, 10, 1, 6, 1, 7, 6, 1, 3, 7>>,
  <<1, 6, 10, 1, 7, 6, 1, 0, 7, 8, 7, 0, 9, 5, 4>>,
  <<4, 0, 10, 4, 10, 5, 0, 3, 10, 6, 10, 7, 3, 7, 10>>,
  <<7, 6, 10, 7, 10, 8, 5, 4, 10, 4, 8, 10>>,
  <<6, 9, 5, 6, 11, 9, 11, 8, 9>>,
  <<3, 6, 11, 0, 6, 3, 0, 5, 6, 0, 9, 5>>,
  <<0, 11, 8, 0, 5, 11, 0, 1, 5, 5, 6, 11>>,
  <<6, 11, 3, 6, 3, 5, 5, 3, 1>>,
  <<1, 2, 10, 9, 5, 11, 9, 11, 8, 11, 5, 6>>,
  <<0, 11, 3, 0, 6, 11, 0, 9, 6, 5, 6, 9, 1, 2, 10>>,
  <<11, 8, 5, 11, 5, 6, 8, 0, 5, 10, 5, 2, 0, 2, 5>>,
  <<6, 11, 3, 6, 3, 5, 2, 10, 3, 10, 5, 3>>,
  <<5, 8, 9, 5, 2, 8, 5, 6, 2, 3, 8, 2>>,
  <<9, 5, 6, 9, 6, 0, 0, 6, 2>>,
  <<1, 5, 8, 1, 8, 0, 5, 6, 8, 3, 8, 2, 6, 2, 8>>,
  <<1, 5, 6, 2, 1, 6>>,
  <<1, 3, 6, 1, 6, 10, 3, 8, 6, 5, 6, 9, 8, 9, 6>>,
  <<10, 1, 0, 10, 0, 6, 9, 5, 0, 5, 6, 0>>,
  <<0, 3, 8, 5, 6, 10>>,
  <<10, 5, 6>>,
  <<11, 5, 10, 7, 5, 11>>,
  <<11, 5, 10, 11, 7, 5, 8, 3, 0>>,
  <<5, 11, 7, 5, 10, 11, 1, 9, 0>>,
  <<10, 7, 5, 10, 11, 7, 9, 8, 1, 8, 3, 1>>,
  <<11, 1, 2, 11, 7, 1, 7, 5, 1>>,
  <<0, 8, 3, 1, 2, 7, 1, 7, 5, 7, 2, 11>>,
  <<9, 7, 5, 9, 2, 7, 9, 0, 2, 2, 11, 7>>,
  <<7, 5, 2, 7, 2, 11, 5, 9, 2, 3, 2, 8, 9, 8, 2>>,
  <<2, 5, 10, 2, 3, 5, 3, 7, 5>>,
  <<8, 2, 0, 8, 5, 2, 8, 7, 5, 10, 2, 5>>,
  <<9, 0, 1, 5, 10, 3, 5, 3, 7, 3, 10, 2>>,
  <<9, 8, 2, 9, 2, 1, 8, 7, 2, 10, 2, 5, 7, 5, 2>>,
  <<1, 3, 5, 3, 7, 5>>,
  <<0, 8, 7, 0, 7, 1, 1, 7, 5>>,
  <<9, 0, 3, 9, 3, 5, 5, 3, 7>>,
  <<9, 8, 7, 5, 9, 7>>,
  <<5, 8, 4, 5, 10, 8, 10, 11, 8>>,
  <<5, 0, 4, 5, 11, 0, 5, 10, 11, 11, 3, 0>>,
  <<0, 1, 9, 8, 4, 10, 8, 10, 11, 10, 4, 5>>,
  <<10, 11, 4, 10, 4, 5, 11, 3, 4, 9, 4, 1, 3, 1, 4>>,
  <<2, 5, 1, 2, 8, 5, 2, 11, 8, 4, 5, 8>>,
  <<0, 4, 11, 0, 11, 3, 4, 5, 11, 2, 11, 1, 5, 1, 11>>,
  <<0, 2, 5, 0, 5, 9, 2, 11, 5, 4, 5, 8, 11, 8, 5>>,
  <<9, 4, 5, 2, 11, 3>>,
  <<2, 5, 10, 3, 5, 2, 3, 4, 5, 3, 8, 4>>,
  <<5, 10, 2, 5, 2, 4, 4, 2, 0>>,
  <<3, 10, 2, 3, 5, 10, 3, 8, 5, 4, 5, 8, 0, 1, 9>>,
  <<5, 10, 2, 5, 2, 4, 1, 9, 2, 9, 4, 2>>,
  <<8, 4, 5, 8, 5, 3, 3, 5, 1>>,
  <<0, 4, 5, 1, 0, 5>>,
  <<8, 4, 5, 8, 5, 3, 9, 0, 5, 0, 3, 5>>,
  <<9, 4, 5>>,
  <<4, 11, 7, 4, 9, 11, 9, 10, 11>>,
  <<0, 8, 3, 4, 9, 7, 9, 11, 7, 9, 10, 11>>,
  <<1, 10, 11, 1, 11, 4, 1, 4, 0, 7, 4, 11>>,
  <<3, 1, 4, 3, 4, 8, 1, 10, 4, 7, 4, 11, 10, 11, 4>>,
  <<4, 11, 7, 9, 11, 4, 9, 2, 11, 9, 1, 2>>,
  <<9, 7, 4, 9, 11, 7, 9, 1, 11, 2, 11, 1, 0, 8, 3>>,
  <<11, 7, 4, 11, 4, 2, 2, 4, 0>>,
  <<11, 7, 4, 11, 4, 2, 8, 3, 4, 3, 2, 4>>,
  <<2, 9, 10, 2, 7, 9, 2, 3, 7, 7, 4, 9>>,
  <<9, 10, 7, 9, 7, 4, 10, 2, 7, 8, 7, 0, 2, 0, 7>>,
  <<3, 7, 10, 3, 10, 2, 7, 4, 10, 1, 10, 0, 4, 0, 10>>,
  <<1, 10, 2, 8, 7, 4>>,
  <<4, 9, 1, 4, 1, 7, 7, 1, 3>>,
  <<4, 9, 1, 4, 1, 7, 0, 8, 1, 8, 7, 1>>,
  <<4, 0, 3, 7, 4, 3>>,
  <<4, 8, 7>>,
  <<9, 10, 8, 10, 11, 8>>,
  <<3, 0, 9, 3, 9, 11, 11, 9, 10>>,
  <<0, 1, 10, 0, 10, 8, 8, 10, 11>>,
  <<3, 1, 10, 11, 3, 10>>,
  <<1, 2, 11, 1, 11, 9, 9, 11, 8>>,
  <<3, 0, 9, 3, 9, 11, 1, 2, 9, 2, 11, 9>>,
  <<0, 2, 11, 8, 0, 11>>,
  <<3, 2, 11>>,
  <<2, 3, 8, 2, 8, 10, 10, 8, 9>>,
  <<9, 10, 2, 0, 9, 2>>,
  <<2, 3, 8, 2, 8, 10, 0, 1, 8, 1, 10, 8>>,
  <<1, 10, 2>>,
  <<1, 3, 8, 9, 1, 8>>,
  <<0, 9, 1>>,
  <<0, 3, 8>>,
  <<>>
>>


Grid(res) == (0..res) \X (0..res) \X (0..res)

\* The cells in the order of the march.
Cells(res) ==
    [n \in 1..(res * res * res) |->
        <<(n - 1) \div (res * res), ((n - 1) \div res) % res, (n - 1) % res>>]

CornerAt(cell, c) ==
    <<cell[1] + CornerOffset[c + 1][1],
      cell[2] + CornerOffset[c + 1][2],
      cell[3] + CornerOffset[c + 1][3]>>

\* Mutant: the threshold truncated to an integer before the comparison.
InsideTruncated(d, isoHalves) == d >= isoHalves \div 2

\* Bit c is set when corner c's density is at least the threshold.
Inside(d, isoHalves) == 2 * d >= isoHalves

RECURSIVE CubeIndexFrom(_, _, _, _)
CubeIndexFrom(dens, cell, isoHalves, c) ==
    IF c > 7 THEN 0
    ELSE (IF Inside(dens[CornerAt(cell, c)], isoHalves) THEN Pow2(c) ELSE 0)
         + CubeIndexFrom(dens, cell, isoHalves, c + 1)

CubeIndex(dens, cell, isoHalves) == CubeIndexFrom(dens, cell, isoHalves, 0)

\* t = (threshold - d0) / (d1 - d0) clamped to [0, 1], the midpoint when the
\* two densities are equal; in halves, for densities 0 and 1.
InterpHalves(d0, d1, isoHalves) ==
    IF d0 = d1 THEN 1
    ELSE LET t == (isoHalves - 2 * d0) * (d1 - d0)
         IN  IF t < 0 THEN 0 ELSE IF t > 2 THEN 2 ELSE t

Lerp(p0, p1, tHalves) ==
    f32_add(p0, f32_mul(f32_div_usize(FromUsize(tHalves), 2), f32_sub(p1, p0)))

WorldAt(f, g) == <<world(f, 1, g[1]), world(f, 2, g[2]), world(f, 3, g[3])>>

\* The point where the surface cuts edge e of the cell.
EdgeVertex(f, dens, cell, e, isoHalves) ==
    LET g0 == CornerAt(cell, EdgeCorners[e + 1][1])
        g1 == CornerAt(cell, EdgeCorners[e + 1][2])
        p0 == WorldAt(f, g0)
        p1 == WorldAt(f, g1)
        t == InterpHalves(dens[g0], dens[g1], isoHalves)
    IN  <<Lerp(p0[1], p1[1], t), Lerp(p0[2], p1[2], t), Lerp(p0[3], p1[3], t)>>

RECURSIVE EdgeVertices(_, _, _, _, _)
EdgeVertices(f, dens, cell, edges, isoHalves) ==
    IF edges = <<>> THEN <<>>
    ELSE EdgeVertex(f, dens, cell, Head(edges), isoHalves)
         \o EdgeVertices(f, dens, cell, Tail(edges), isoHalves)

\* The triangles of one cell, nine values each.
CellTriangles(f, dens, cell, isoHalves) ==
    EdgeVertices(f, dens, cell, TriTable[CubeIndex(dens, cell, isoHalves) + 1],
                 isoHalves)

RECURSIVE March(_, _, _, _, _)
March(f, dens, cells, n, isoHalves) ==
    IF n > Len(cells) THEN <<>>
    ELSE CellTriangles(f, dens, cells[n], isoHalves)
         \o March(f, dens, cells, n + 1, isoHalves)

Sample(f) == [g \in Grid(f.resolution) |-> z(f, g[1], g[2], g[3])]

marching_cubes(f, dens, isoHalves) ==
    March(f, dens, Cells(dimensions(f)[1]), 1, isoHalves)

(***************************************************************************)
(* main                                                                    *)
(***************************************************************************)
StrideIdle == other = <<>> /\ other_density = <<>> /\ reads = {}
IsoIdle == cube = <<>> /\ iso_lo = 0 /\ iso_hi = 0 /\ count_lo = 0 /\ count_hi = 0
StlIdle == triangles = <<>> /\ file = <<>>

Init ==
    /\ pc = "start"
    /\ positions \in {Flatten(s) : s \in PointSeqs(MaxPts)}
    /\ resolution \in 1..MaxRes
    /\ min_bound = <<>>
    /\ max_bound = <<>>
    /\ density = <<>>
    /\ new_mesh = <<>>
    /\ StrideIdle /\ IsoIdle /\ StlIdle

\* let (min_bound, max_bound) = get_bounds(&mesh.positions);
Bounds ==
    /\ pc = "start"
    /\ min_bound' = get_bounds(positions).min
    /\ max_bound' = get_bounds(positions).max
    /\ pc' = "bounded"
    /\ UNCHANGED <<positions, resolution, density, new_mesh>>
    /\ UNCHANGED <<strideVars, isoVars, stlVars>>

\* let field = MeshDistanceField {..}; let new_mesh = marching_cubes(&field, 0.5);
Remesh ==
    /\ pc = "bounded"
    /\ IF ScanPanics(Len(positions))
       THEN /\ pc' = "panic"
            /\ UNCHANGED <<density, new_mesh>>
       ELSE /\ density' = Sample(Field(positions, min_bound, max_bound, resolution))
            /\ new_mesh' = marching_cubes(
                   Field(positions, min_bound, max_bound, resolution),
                   density', IsoHalves)
            /\ pc' = "meshed"
    /\ UNCHANGED <<positions, resolution, min_bound, max_bound>>
    /\ UNCHANGED <<strideVars, isoVars, stlVars>>

Next == Bounds \/ Remesh

Spec == Init /\ [][Next]_vars

NonEmpty == Len(positions) > 0
Axes == 1..3
NPoints(buf) == Len(buf) \div 3
PointAt(buf, k) == <<At(buf, 3 * k), At(buf, 3 * k + 1), At(buf, 3 * k + 2)>>
TwoPadding == f32_add(PADDING, PADDING)

(***************************************************************************)
(* C1: for a non-empty buffer, before padding min <= p <= max on every     *)
(* axis for every point p, and the padded corners are at least 2 * padding *)
(* apart on every axis.                                                    *)
(***************************************************************************)
C1_BoundsEncloseAndPad ==
    (pc # "start" /\ NonEmpty) =>
        /\ \A k \in 0..(NPoints(positions) - 1) : \A a \in Axes :
              /\ f32_le(RawBounds(positions).min[a], PointAt(positions, k)[a])
              /\ f32_le(PointAt(positions, k)[a], RawBounds(positions).max[a])
        /\ \A a \in Axes :
              f32_le(TwoPadding, f32_sub(max_bound[a], min_bound[a]))

(***************************************************************************)
(* C2: on an empty buffer the bounds computation fails with EmptyInput     *)
(* and returns no corners.                                                 *)
(***************************************************************************)
C2_EmptyInputRejected ==
    (pc # "start" /\ ~NonEmpty) => (pc = "EmptyInput" /\ min_bound = <<>>)

(***************************************************************************)
(* C3: for an empty point cloud the pipeline ends with zero triangles, the *)
(* field sampled at every grid vertex, and no panic (no read outside the   *)
(* buffer; the only division is the f32 division by the resolution, which  *)
(* is not zero).                                                           *)
(***************************************************************************)
C3_EmptyCloudNoTriangles ==
    ~NonEmpty =>
        /\ pc # "panic"
        /\ resolution # 0
        /\ pc = "meshed" =>
              /\ new_mesh = <<>>
              /\ DOMAIN density = Grid(resolution)

C3_Witness == ~NonEmpty /\ pc = "meshed" /\ resolution > 1

(***************************************************************************)
(* C4: for a non-empty cloud every grid vertex with an index 0 or          *)
(* resolution has density 0.                                               *)
(***************************************************************************)
OnBoundary(g, res) == \E a \in Axes : g[a] = 0 \/ g[a] = res

C4_BoundaryDensityZero ==
    (pc = "meshed" /\ NonEmpty) =>
        \A g \in Grid(resolution) : OnBoundary(g, resolution) => density[g] = 0

(***************************************************************************)
(* C5: the density at a grid vertex is 1 when the squared distance from    *)
(* min + index * step to some sampled point (and so the least of them) is  *)
(* below (3 * step_x)^2, and 0 otherwise.                                  *)
(***************************************************************************)
SampledPoints(buf) == {k \in 0..(NPoints(buf) - 1) : k % 10 = 0}

WithinRadius(f, g) ==
    \E k \in SampledPoints(f.positions) :
        f32_lt(dist_sq(f.positions, 3 * k, WorldAt(f, g)),
               powi2(f32_mul(THREE, step(f, 1))))

C5_DensityIsThresholdTest ==
    pc = "meshed" =>
        \A g \in Grid(resolution) :
            density[g] =
                IF WithinRadius(Field(positions, min_bound, max_bound, resolution), g)
                THEN 1 ELSE 0

MaxIsoHalves == 3      \* thresholds range over -1.5, -1.0, .., 1.5

IsoSet == (0 - MaxIsoHalves)..MaxIsoHalves

MainIdle ==
    /\ positions = <<>> /\ resolution = 1 /\ min_bound = <<>> /\ max_bound = <<>>
    /\ density = <<>> /\ new_mesh = <<>>

CellTriangleCount(dens, cell, isoHalves) ==
    Len(TriTable[CubeIndex(dens, cell, isoHalves) + 1]) \div 3

InitIso ==
    /\ pc = "cell"
    /\ cube \in [Grid(1) -> {0, 1}]
    /\ iso_lo \in IsoSet
    /\ iso_hi \in IsoSet
    /\ iso_lo < iso_hi
    /\ count_lo = 0
    /\ count_hi = 0
    /\ MainIdle /\ StrideIdle /\ StlIdle

Polygonise ==
    /\ pc = "cell"
    /\ count_lo' = CellTriangleCount(cube, <<0, 0, 0>>, iso_lo)
    /\ count_hi' = CellTriangleCount(cube, <<0, 0, 0>>, iso_hi)
    /\ pc' = "counted"
    /\ UNCHANGED <<cube, iso_lo, iso_hi, mainVars, strideVars, stlVars>>

NextIso == Polygonise

SpecIso == InitIso /\ [][NextIso]_vars

(***************************************************************************)
(* C6 as stated: raising the threshold from any t1 to any larger           *)
(* t2 <= 1.0 never adds a triangle to a cell of a binary field.            *)
(***************************************************************************)
C6_RaisingNeverAdds ==
    (pc = "counted" /\ iso_hi <= 2) => count_hi <= count_lo

(***************************************************************************)
(* C6 amended: raising the threshold from any t1 > 0 to any larger         *)
(* t2 <= 1.0 never adds a triangle to a cell of a binary field.            *)
(***************************************************************************)
C6_RaisingAboveZeroNeverAdds ==
    (pc = "counted" /\ 0 < iso_lo /\ iso_hi <= 2) => count_hi <= count_lo

C6_Witness ==
    pc = "counted" /\ iso_lo = 1 /\ iso_hi = 2 /\ count_lo > 0 /\ count_hi = count_lo

(***************************************************************************)
(* save_triangles_as_stl                                                   *)
(***************************************************************************)
MaxTris == 3           \* triangles in a buffer handed to the writer

\* usize Display: the decimal digits, most significant first.
RECURSIVE Digits(_)
Digits(n) == IF n < 10 THEN <<n>> ELSE Append(Digits(n \div 10), n % 10)

Line(text) == [text |-> text, args |-> <<>>]
VertexLine(a, b, c) == [text |-> "vertex", args |-> <<Digits(a), Digits(b), Digits(c)>>]

\* triangles.chunks(9): the last chunk is shorter when 9 does not divide the
\* length.
Chunk(buf, c) == SubSeq(buf, 9 * c + 1, IF 9 * c + 9 < Len(buf) THEN 9 * c + 9 ELSE Len(buf))
NChunks(buf) == (Len(buf) + 8) \div 9

\* Mutant: the third vertex line written from chunk[3..5] again.
FullFacetRepeated(chunk) ==
    <<Line("facet normal 0 0 0"), Line("outer loop"),
      VertexLine(chunk[1], chunk[2], chunk[3]),
      VertexLine(chunk[4], chunk[5], chunk[6]),
      VertexLine(chunk[4], chunk[5], chunk[6]),
      Line("endloop"), Line("endfacet")>>

\* The seven lines of a chunk of nine values.
FullFacet(chunk) ==
    <<Line("facet normal 0 0 0"), Line("outer loop"),
      VertexLine(chunk[1], chunk[2], chunk[3]),
      VertexLine(chunk[4], chunk[5], chunk[6]),
      VertexLine(chunk[7], chunk[8], chunk[9]),
      Line("endloop"), Line("endfacet")>>

\* The lines of one chunk; chunk[i] past the chunk's end panics, after the
\* lines before it are written.
FacetLines(chunk) ==
    IF Len(chunk) = 9 THEN [lines |-> FullFacet(chunk), panic |-> FALSE]
    ELSE [lines |-> SubSeq(FullFacet(chunk \o <<0, 0, 0, 0, 0, 0, 0, 0, 0>>),
                           1, 2 + Len(chunk) \div 3),
          panic |-> TRUE]

RECURSIVE WriteChunks(_, _, _)
WriteChunks(buf, c, out) ==
    IF c >= NChunks(buf)
    THEN [lines |-> Append(out, Line("endsolid voxel_skin")), panic |-> FALSE]
    ELSE IF FacetLines(Chunk(buf, c)).panic
    THEN [lines |-> out \o FacetLines(Chunk(buf, c)).lines, panic |-> TRUE]
    ELSE WriteChunks(buf, c + 1, out \o FacetLines(Chunk(buf, c)).lines)

save_triangles_as_stl(buf) == WriteChunks(buf, 0, <<Line("solid voxel_skin")>>)

TriangleSet ==
    {<<0, 0, 0, 1, 0, 0, 0, 1, 0>>,
     <<10, 11, 12, 20, 21, 22, 30, 31, 32>>,
     <<7, 105, 0, 0, 7, 105, 105, 0, 7>>,
     <<1, 2, 3, 4, 5, 6, 7, 8, 9>>}

TailSet == {<<>>, <<5, 6, 7, 8>>}

InitStl ==
    /\ pc = "save"
    /\ triangles \in {Flatten(s) \o t :
                        s \in UNION {[1..n -> TriangleSet] : n \in 0..MaxTris},
                        t \in TailSet}
    /\ file = <<>>
    /\ MainIdle /\ StrideIdle /\ IsoIdle

\* save_triangles_as_stl(&new_mesh, "repaired_voxel_skin.stl")?
Save ==
    /\ pc = "save"
    /\ file' = save_triangles_as_stl(triangles).lines
    /\ pc' = IF save_triangles_as_stl(triangles).panic THEN "panic" ELSE "saved"
    /\ UNCHANGED <<triangles, mainVars, strideVars, isoVars>>

NextStl == Save

SpecStl == InitStl /\ [][NextStl]_vars

RECURSIVE Number(_)
Number(ds) == IF Len(ds) = 1 THEN ds[1]
              ELSE 10 * Number(SubSeq(ds, 1, Len(ds) - 1)) + ds[Len(ds)]

Carries(line, buf, i) ==
    /\ line.text = "vertex"
    /\ Len(line.args) = 3
    /\ \A j \in 1..3 :
          /\ line.args[j][1] # 0 \/ Len(line.args[j]) = 1
          /\ Number(line.args[j]) = At(buf, i + j - 1)

(***************************************************************************)
(* C8: a buffer of 9 * n values is written as 2 + 7 * n lines: the header, *)
(* per triangle in input order facet normal, outer loop, three vertex      *)
(* lines with its values 0-2, 3-5 and 6-8, endloop, endfacet, and the      *)
(* footer.                                                                 *)
(***************************************************************************)
C8_StlLayout ==
    (pc # "save" /\ Len(triangles) % 9 = 0) =>
        LET n == Len(triangles) \div 9 IN
        /\ pc = "saved"
        /\ Len(file) = 2 + 7 * n
        /\ file[1] = Line("solid voxel_skin")
        /\ file[Len(file)] = Line("endsolid voxel_skin")
        /\ \A t \in 0..(n - 1) :
              /\ file[7 * t + 2] = Line("facet normal 0 0 0")
              /\ file[7 * t + 3] = Line("outer loop")
              /\ Carries(file[7 * t + 4], triangles, 9 * t)
              /\ Carries(file[7 * t + 5], triangles, 9 * t + 3)
              /\ Carries(file[7 * t + 6], triangles, 9 * t + 6)
              /\ file[7 * t + 7] = Line("endloop")
              /\ file[7 * t + 8] = Line("endfacet")

C8_Witness ==
    /\ pc = "saved"
    /\ Len(triangles) = 27
    /\ triangles[10] = 7 /\ triangles[11] = 105
    /\ Len(file) = 23


(***************************************************************************)
(* The strided scan of MeshDistanceField::z on longer buffers              *)
(***************************************************************************)
MaxPoints == 11        \* points in a buffer of the scan
StrideRes == 2         \* grid resolution of the two fields compared

StridePoints == {<<Zero, Zero, Zero>>, <<Zero, Zero, FOUR>>}

\* n points: a at index 0, b at index 10, f everywhere else.
Buffer(n, a, b, f) ==
    Flatten([k \in 1..n |-> IF k = 1 THEN a ELSE IF k = 11 THEN b ELSE f])

InitStride ==
    /\ pc = "field"
    /\ \E n \in 0..MaxPoints :
        /\ positions \in {Buffer(n, q[1], q[2], q[3]) : q \in StridePoints \X StridePoints \X StridePoints}
        /\ other \in {Buffer(n, q[1], q[2], q[3]) : q \in StridePoints \X StridePoints \X StridePoints}
    /\ resolution \in 1..StrideRes
    /\ min_bound = get_bounds(positions).min
    /\ max_bound = get_bounds(positions).max
    /\ density = <<>>
    /\ new_mesh = <<>>
    /\ other_density = <<>>
    /\ reads = {}
    /\ IsoIdle /\ StlIdle

\* z at every grid vertex, for the field over positions and for the field
\* over other with the same min, max and resolution.
SampleBoth ==
    /\ pc = "field"
    /\ reads' = ScanReads(Len(positions))
    /\ IF ScanPanics(Len(positions))
       THEN /\ pc' = "panic"
            /\ UNCHANGED <<density, other_density>>
       ELSE /\ density' = Sample(Field(positions, min_bound, max_bound, resolution))
            /\ other_density' = Sample(Field(other, min_bound, max_bound, resolution))
            /\ pc' = "sampled"
    /\ UNCHANGED <<positions, resolution, min_bound, max_bound, new_mesh, other>>
    /\ UNCHANGED <<isoVars, stlVars>>

NextStride == SampleBoth

SpecStride == InitStride /\ [][NextStride]_vars

\* The buffers hold the same points at indices 0, 10, 20, ...
AgreeOnSampled ==
    /\ Len(other) = Len(positions)
    /\ \A k \in 0..(NPoints(positions) - 1) :
          k % 10 = 0 => PointAt(other, k) = PointAt(positions, k)

(***************************************************************************)
(* C9: with bounds and resolution fixed, two buffers of equal length that  *)
(* agree on the points at indices 0, 10, 20, ... have the same density at  *)
(* every grid vertex.                                                      *)
(***************************************************************************)
C9_DensityDependsOnSampledOnly ==
    (pc = "sampled" /\ AgreeOnSampled) => other_density = density

C9_Witness ==
    /\ pc = "sampled"
    /\ AgreeOnSampled
    /\ NPoints(positions) = 11
    /\ PointAt(positions, 0) # PointAt(positions, 10)
    /\ PointAt(other, 5) # PointAt(positions, 5)
    /\ \E g \in Grid(resolution) : density[g] = 1
    /\ \E g \in Grid(resolution) : density[g] = 0

(***************************************************************************)
(* C10: for a buffer whose length is a multiple of 3 the scan does not     *)
(* panic, and every index it reads, i, i + 1 and i + 2 for i = 0, 30, ..,  *)
(* lies within the buffer.                                                 *)
(***************************************************************************)
C10_ScanReadsInBounds ==
    Len(positions) % 3 = 0 =>
        /\ pc # "panic"
        /\ pc = "sampled" =>
              /\ \A r \in reads : 0 <= r /\ r < Len(positions)
              /\ \A i \in 0..(Len(positions) - 1) :
                    i % 30 = 0 => {i, i + 1, i + 2} \subseteq reads

C10_Witness ==
    /\ pc = "sampled"
    /\ Len(positions) = 33
    /\ 32 \in reads

====
